---- MODULE Spec2Model ----
(***************************************************************************)
(* A model of katy262/camera-sensor-processing:                            *)
(*   resim.py   Reprocessor            (fusion of camera and sensor data)  *)
(*   f_cam.py   FrontCameraSimulation  (camera series generator)           *)
(*   sensor.py  SensorSimulation       (sensor series generator)           *)
(*                                                                         *)
(* Numbers.  Speeds, yaw rates and Signal2 are float64 in the source; the  *)
(* model counts them in hundredths (60.0 is 6000, 0.08 is 8).  Generator   *)
(* timestamps are whole microseconds.  The timestamps of the fusion inputs *)
(* are small abstract ticks.  A uniform random draw is a choice from a     *)
(* small set that holds the extremes of the drawn interval.                *)
(***************************************************************************)
EXTENDS Integers, Sequences, FiniteSets, TLC

VARIABLES
    \* ---- resim.py: Reprocessor ----
    sensor_file,    \* the file at sensor_data_path
    camera_file,    \* the file at camera_data_path
    pc,             \* position inside Reprocessor.to_csv
    loaded,         \* what try_load_data returned ("unset" before the call)
    sensor_data,    \* self.sensor_data
    camera_data,    \* self.camera_data
    data,           \* self.data
    index,          \* label of the camera row the for loop is at (0-based)
    sensor_index,   \* the sensor cursor (0-based)
    used,           \* the sensor_index read at line 47, one per fused row
    result,         \* what reprocess_data returned
    raised,         \* the exception that left to_csv, "none" if none
    out_exists,     \* whether resim_out.csv exists
    out_rows,       \* the number of data rows written to resim_out.csv
    \* ---- f_cam.py: FrontCameraSimulation ----
    from_id,        \* self.from_id
    frames,         \* self.frames
    cam_pc,         \* position inside generate_data
    cam_row_index,  \* the next value of row_index in range(1, self.frames)
    cam_len,        \* len(self.data)
    cam_last,       \* the last row of self.data, self.data.loc[cam_len - 1]
    \* ---- sensor.py: SensorSimulation ----
    start,          \* self.start
    end,            \* self.end
    sen_pc,         \* position inside generate_data
    sen_row_index,  \* row_index
    sen_len,        \* len(self.data)
    sen_last,       \* the last row of self.data, self.data.loc[row_index]
    sen_new_row     \* new_row as the last turn of the loop computed it

fuse_vars == <<sensor_file, camera_file, pc, loaded, sensor_data, camera_data,
               data, index, sensor_index, used, result, raised, out_exists,
               out_rows>>

cam_vars == <<from_id, frames, cam_pc, cam_row_index, cam_len, cam_last>>

sen_vars == <<start, end, sen_pc, sen_row_index, sen_len, sen_last, sen_new_row>>

vars == <<fuse_vars, cam_vars, sen_vars>>

(***************************************************************************)
(* Bounds of the fusion inputs.                                            *)
(***************************************************************************)
MaxTs == 2
MaxSensor == 3
MaxCamera == 2

TsVals == 0..MaxTs
\* Even numbers of hundredths, so that the mean of two of them is a whole
\* number of hundredths and \div is the float division of line 47.
SpeedVals == {5900, 6008}
Signal1Vals == {0, 7}

CameraColumns == <<"Timestamp", "FrameID", "Speed", "YawRate", "Signal1", "Signal2">>
SensorColumns == <<"Timestamp", "Speed">>

Max(S) == CHOOSE x \in S : \A y \in S : y <= x
Min(S) == CHOOSE x \in S : \A y \in S : x <= y

SeqsUpTo(S, n) == UNION {[1..k -> S] : k \in 0..n}

StrictlyIncreasing(rows) ==
    \A k \in 1..(Len(rows) - 1) : rows[k].Timestamp < rows[k + 1].Timestamp

NonDecreasing(rows) ==
    \A k \in 1..(Len(rows) - 1) : rows[k].Timestamp <= rows[k + 1].Timestamp

\* The yaw rates of the test fixture: 0.1, -0.2, 0.3, ...
YawRateOf(k) == IF k % 2 = 1 THEN 10 * k ELSE -(10 * k)

\* Row k (1-based) of a camera file: Timestamp and Speed are free, FrameID
\* counts up from 100, Signal1 is one value for the whole file and Signal2
\* follows it.
CameraRow(k, ts, sp, sig) ==
    [Timestamp |-> ts, FrameID |-> 99 + k, Speed |-> sp,
     YawRate |-> YawRateOf(k), Signal1 |-> sig,
     Signal2 |-> IF sig >= 5 THEN 8000 + k ELSE 0]

SensorRows == [Timestamp : TsVals, Speed : SpeedVals]

\* A file is missing, blank (no header at all), or a csv with its header
\* and zero or more rows.
NoFile(cols) == [kind |-> "missing", columns |-> cols, rows |-> <<>>]
BlankFile(cols) == [kind |-> "blank", columns |-> cols, rows |-> <<>>]
CsvFile(cols, rows) == [kind |-> "csv", columns |-> cols, rows |-> rows]

\* Sensor files hold strictly increasing timestamps, as sensor.py writes
\* them; camera files hold rows in any order.
SensorFiles ==
    {NoFile(SensorColumns), BlankFile(SensorColumns)} \cup
    {CsvFile(SensorColumns, rows) :
        rows \in {s \in SeqsUpTo(SensorRows, MaxSensor) : StrictlyIncreasing(s)}}

CameraFiles ==
    {NoFile(CameraColumns), BlankFile(CameraColumns)} \cup
    {CsvFile(CameraColumns, [k \in 1..Len(c) |-> CameraRow(k, c[k][1], c[k][2], sig)]) :
        c \in SeqsUpTo(TsVals \X SpeedVals, MaxCamera), sig \in Signal1Vals}

NoFrame == [columns |-> <<>>, rows |-> <<>>]

(***************************************************************************)
(* resim.py                                                                *)
(***************************************************************************)

\* pd.read_csv of a file that exists and has a header.
read_csv(f) == [columns |-> f.columns, rows |-> f.rows]

try_load_data_sensor_only(sf, cf) ==
    /\ sf.kind # "missing"
    /\ sf.kind # "blank"

\* Reprocessor.try_load_data: False when a file does not exist or
\* pd.read_csv raises EmptyDataError.
try_load_data(sf, cf) ==
    /\ ~(sf.kind = "missing" \/ cf.kind = "missing")
    /\ sf.kind # "blank"
    /\ cf.kind # "blank"

copy_blank(df) == [columns |-> <<>>, rows |-> <<>>]

\* self.camera_data.copy()
copy(df) == [columns |-> df.columns, rows |-> df.rows]

while_cond_strict(si, sd, ts) ==
    /\ si + 1 < Len(sd.rows)
    /\ sd.rows[si + 2].Timestamp < ts

while_cond_current_row(si, sd, ts) ==
    /\ si + 1 < Len(sd.rows)
    /\ sd.rows[si + 1].Timestamp <= ts

\* The condition of the while loop, lines 43-44; sensor index si + 1 is
\* element si + 2 of the 1-based sequence.
while_cond(si, sd, ts) ==
    /\ si + 1 < Len(sd.rows)
    /\ sd.rows[si + 2].Timestamp <= ts

fused_speed_precedence(cam_speed, sensor_speed) == cam_speed + sensor_speed \div 2

fused_speed_sum(cam_speed, sensor_speed) == cam_speed + sensor_speed

\* (row["Speed"] + self.sensor_data.at[sensor_index, "Speed"])/2
fused_speed(cam_speed, sensor_speed) == (cam_speed + sensor_speed) \div 2

\* format_data followed by to_csv: one line per row of self.data.
written_rows(df) == Len(df.rows)

\* to_csv calls reprocess_data, which calls try_load_data; on success lines
\* 37-39 copy the camera data and set the cursor.
reprocess_data_load ==
    /\ UNCHANGED <<cam_vars, sen_vars>>
    /\ pc = "reprocess_data"
    /\ IF try_load_data(sensor_file, camera_file)
       THEN /\ loaded' = "True"
            /\ sensor_data' = read_csv(sensor_file)
            /\ camera_data' = read_csv(camera_file)
            /\ data' = copy(read_csv(camera_file))
            /\ sensor_index' = 0
            /\ index' = 0
            /\ pc' = "for"
            /\ UNCHANGED result
       ELSE /\ loaded' = "False"
            /\ result' = "None"
            /\ pc' = "to_csv"
            /\ UNCHANGED <<sensor_data, camera_data, data, sensor_index, index>>
    /\ UNCHANGED <<sensor_file, camera_file, used, raised, out_exists, out_rows>>

\* line 41: iterrows yields the next camera row.
for_next ==
    /\ UNCHANGED <<cam_vars, sen_vars>>
    /\ pc = "for"
    /\ index < Len(camera_data.rows)
    /\ pc' = "while"
    /\ UNCHANGED <<sensor_file, camera_file, loaded, sensor_data, camera_data,
                   data, index, sensor_index, used, result, raised, out_exists,
                   out_rows>>

\* line 49: the rows are exhausted, reprocess_data returns self.data.
for_end ==
    /\ UNCHANGED <<cam_vars, sen_vars>>
    /\ pc = "for"
    /\ index >= Len(camera_data.rows)
    /\ result' = "data"
    /\ pc' = "to_csv"
    /\ UNCHANGED <<sensor_file, camera_file, loaded, sensor_data, camera_data,
                   data, index, sensor_index, used, raised, out_exists, out_rows>>

\* lines 43-45: one turn of the while loop.
while_advance ==
    /\ UNCHANGED <<cam_vars, sen_vars>>
    /\ pc = "while"
    /\ while_cond(sensor_index, sensor_data, camera_data.rows[index + 1].Timestamp)
    /\ sensor_index' = sensor_index + 1
    /\ UNCHANGED <<sensor_file, camera_file, pc, loaded, sensor_data,
                   camera_data, data, index, used, result, raised, out_exists,
                   out_rows>>

\* lines 43-44: the condition is false, the loop is left.
while_exit ==
    /\ UNCHANGED <<cam_vars, sen_vars>>
    /\ pc = "while"
    /\ ~while_cond(sensor_index, sensor_data, camera_data.rows[index + 1].Timestamp)
    /\ pc' = "average"
    /\ UNCHANGED <<sensor_file, camera_file, loaded, sensor_data, camera_data,
                   data, index, sensor_index, used, result, raised, out_exists,
                   out_rows>>

\* line 47: the average is stored in self.data.
average_speed ==
    /\ UNCHANGED <<cam_vars, sen_vars>>
    /\ pc = "average"
    /\ sensor_index < Len(sensor_data.rows)
    /\ data' = [data EXCEPT !.rows[index + 1].Speed =
                   fused_speed(camera_data.rows[index + 1].Speed,
                               sensor_data.rows[sensor_index + 1].Speed)]
    /\ used' = Append(used, sensor_index)
    /\ index' = index + 1
    /\ pc' = "for"
    /\ UNCHANGED <<sensor_file, camera_file, loaded, sensor_data, camera_data,
                   sensor_index, result, raised, out_exists, out_rows>>

\* line 47: self.sensor_data.at[sensor_index, "Speed"] has no such label;
\* pandas raises KeyError, which nothing catches.
average_speed_key_error ==
    /\ UNCHANGED <<cam_vars, sen_vars>>
    /\ pc = "average"
    /\ sensor_index >= Len(sensor_data.rows)
    /\ raised' = "KeyError"
    /\ pc' = "raised"
    /\ UNCHANGED <<sensor_file, camera_file, loaded, sensor_data, camera_data,
                   data, index, sensor_index, used, result, out_exists, out_rows>>

\* lines 65-74: the data is formatted and written.
to_csv_write ==
    /\ UNCHANGED <<cam_vars, sen_vars>>
    /\ pc = "to_csv"
    /\ result # "None"
    /\ out_exists' = TRUE
    /\ out_rows' = written_rows(data)
    /\ pc' = "returned"
    /\ UNCHANGED <<sensor_file, camera_file, loaded, sensor_data, camera_data,
                   data, index, sensor_index, used, result, raised>>

\* line 65: reprocess_data returned None, nothing is written.
to_csv_skip ==
    /\ UNCHANGED <<cam_vars, sen_vars>>
    /\ pc = "to_csv"
    /\ result = "None"
    /\ pc' = "returned"
    /\ UNCHANGED <<sensor_file, camera_file, loaded, sensor_data, camera_data,
                   data, index, sensor_index, used, result, raised, out_exists,
                   out_rows>>

\* The attributes of a Reprocessor no method has touched yet.
FuseFresh ==
    /\ loaded = "unset"
    /\ sensor_data = NoFrame
    /\ camera_data = NoFrame
    /\ data = NoFrame
    /\ index = 0
    /\ sensor_index = 0
    /\ used = <<>>
    /\ result = "unset"
    /\ raised = "none"
    /\ out_exists = FALSE
    /\ out_rows = 0

\* No Reprocessor runs.
FuseIdle ==
    /\ sensor_file = NoFile(SensorColumns)
    /\ camera_file = NoFile(CameraColumns)
    /\ pc = "idle"
    /\ FuseFresh

(***************************************************************************)
(* f_cam.py.  generate_data reads only the last row of self.data and never *)
(* changes a row it has appended, so the model keeps the last row and the  *)
(* number of rows: every sample of the series is cam_last in the state     *)
(* that follows its append.                                                *)
(***************************************************************************)
MaxFrames == 760

CamStartTimestamp == 100000000
CamTimeStep == 27700
CamSpeedIncrement == 8
CamSpeedCap == 12000
InitialSpeed == 6000
Signal1Frame == 201
Signal2Threshold == 5
Signal2Base == 8000

\* 1000 * np.random.uniform(-0.05, 0.05), in microseconds
CamTimeJitter == {-50, 50}
\* np.random.uniform(-0.05, 0.05), in hundredths
CamSpeedNoise == {-5, 5}
\* np.random.uniform(-1.0, 1.0), in hundredths
YawRateDraws == {-100, 100}
\* np.random.randint(1, 16) draws from 1..15
Signal1Draws == {1, 5, 15}
\* np.random.uniform(-10.0, 10.0), in hundredths
Signal2Noise == {-1000, 1000}

\* Short runs from several first frame ids, and one long run of the default
\* from_id that passes frame 201 and reaches the speed cap.
CamRuns ==
    ({100, 199, 201} \X {0, 1, 3}) \cup {<<100, MaxFrames>>}

\* line 17
cam_first_row(fid) ==
    [Timestamp |-> CamStartTimestamp, FrameID |-> fid, Speed |-> InitialSpeed,
     YawRate |-> 0, Signal1 |-> 0, Signal2 |-> 0]

\* lines 35-38: the speeds the new row can get.
cam_next_speed(speed) ==
    IF speed + CamSpeedIncrement <= CamSpeedCap
    THEN {speed + CamSpeedIncrement}
    ELSE {CamSpeedCap + n : n \in CamSpeedNoise}

cam_next_signal1_every_frame(frame_id, signal1) ==
    IF frame_id >= Signal1Frame THEN Signal1Draws ELSE {signal1}

\* lines 43-44: the Signal1 values the new row can get.
cam_next_signal1(frame_id, signal1) ==
    IF frame_id = Signal1Frame THEN Signal1Draws ELSE {signal1}

\* lines 47-48: the Signal2 values the new row can get.
cam_next_signal2(signal1, signal2) ==
    IF signal1 >= Signal2Threshold
    THEN {Signal2Base + n : n \in Signal2Noise}
    ELSE {signal2}

\* line 29
cam_frame_id(fid, row_index) == fid + row_index

\* lines 14-17: the empty frame gets its first row.
cam_first ==
    /\ UNCHANGED <<fuse_vars, sen_vars>>
    /\ cam_pc = "generate_data"
    /\ cam_last' = cam_first_row(from_id)
    /\ cam_len' = 1
    /\ cam_row_index' = 1
    /\ cam_pc' = "for"
    /\ UNCHANGED <<from_id, frames>>

\* lines 20-51: one turn of the for loop appends a row.
cam_tick ==
    /\ UNCHANGED <<fuse_vars, sen_vars>>
    /\ cam_pc = "for"
    /\ cam_row_index < frames
    /\ \E jitter \in CamTimeJitter, yaw \in YawRateDraws,
          speed \in cam_next_speed(cam_last.Speed),
          signal1 \in cam_next_signal1(cam_frame_id(from_id, cam_row_index),
                                       cam_last.Signal1) :
          \E signal2 \in cam_next_signal2(signal1, cam_last.Signal2) :
             cam_last' = [Timestamp |-> cam_last.Timestamp + CamTimeStep + jitter,
                          FrameID |-> cam_frame_id(from_id, cam_row_index),
                          Speed |-> speed, YawRate |-> yaw,
                          Signal1 |-> signal1, Signal2 |-> signal2]
    /\ cam_len' = cam_row_index + 1
    /\ cam_row_index' = cam_row_index + 1
    /\ UNCHANGED <<from_id, frames, cam_pc>>

\* line 52: range(1, self.frames) is exhausted.
cam_return ==
    /\ UNCHANGED <<fuse_vars, sen_vars>>
    /\ cam_pc = "for"
    /\ cam_row_index >= frames
    /\ cam_pc' = "returned"
    /\ UNCHANGED <<from_id, frames, cam_row_index, cam_len, cam_last>>

NoRow == [Timestamp |-> 0, Speed |-> 0]

CamFresh ==
    /\ cam_row_index = 0
    /\ cam_len = 0
    /\ cam_last = [Timestamp |-> 0, FrameID |-> 0, Speed |-> 0, YawRate |-> 0,
                   Signal1 |-> 0, Signal2 |-> 0]

\* A FrontCameraSimulation(from_id, frames) before generate_data is called.
CamStart ==
    /\ \E run \in CamRuns : from_id = run[1] /\ frames = run[2]
    /\ cam_pc = "generate_data"
    /\ CamFresh

\* No FrontCameraSimulation runs.
CamIdle ==
    /\ from_id = 100
    /\ frames = 0
    /\ cam_pc = "idle"
    /\ CamFresh

NextCamera ==
    \/ cam_first
    \/ cam_tick
    \/ cam_return

(***************************************************************************)
(* sensor.py.  As for the camera, the model keeps the last row.            *)
(***************************************************************************)
SensorSpan == 60

ConversionFactor == 1000000
SensorTimeStep == 200000
SensorSpeedIncrement == 56
SensorSpeedCap == 12000

\* 1000 * np.random.uniform(-10, 10), in microseconds
SensorTimeJitter == {-10000, 0, 10000}
\* np.random.uniform(-0.1, 0.1), in hundredths
SensorSpeedNoise == {-10, 0, 10}

FromSVals == {100}
ToSVals(from_s) == {from_s - 1, from_s, from_s + 1, from_s + SensorSpan}

sensor_next_speed_no_cap(speed) == {speed + SensorSpeedIncrement}

\* lines 34-37: the speeds new_row can get.
sensor_next_speed(speed) ==
    IF speed + SensorSpeedIncrement <= SensorSpeedCap
    THEN {speed + SensorSpeedIncrement}
    ELSE {SensorSpeedCap + n : n \in SensorSpeedNoise}

sensor_exceeds_end_never(ts, e) == FALSE

sensor_exceeds_end_or_reaches(ts, e) == ts >= e

\* line 40
sensor_exceeds_end(ts, e) == ts > e

\* lines 16-20: the empty frame gets its first row.
sensor_first ==
    /\ UNCHANGED <<fuse_vars, cam_vars>>
    /\ sen_pc = "generate_data"
    /\ sen_last' = [Timestamp |-> start, Speed |-> InitialSpeed]
    /\ sen_len' = 1
    /\ sen_row_index' = 0
    /\ sen_pc' = "while"
    /\ UNCHANGED <<start, end, sen_new_row>>

\* lines 23-45: a turn of the while loop that appends new_row.
sensor_tick ==
    /\ UNCHANGED <<fuse_vars, cam_vars>>
    /\ sen_pc = "while"
    /\ sen_last.Timestamp < end
    /\ \E jitter \in SensorTimeJitter, speed \in sensor_next_speed(sen_last.Speed) :
          /\ sen_new_row' = [Timestamp |-> sen_last.Timestamp + SensorTimeStep + jitter,
                             Speed |-> speed]
          /\ ~sensor_exceeds_end(sen_new_row'.Timestamp, end)
          /\ sen_last' = sen_new_row'
    /\ sen_row_index' = sen_row_index + 1
    /\ sen_len' = sen_len + 1
    /\ UNCHANGED <<start, end, sen_pc>>

\* lines 23-41: a turn of the while loop that throws new_row away and
\* breaks.
sensor_break ==
    /\ UNCHANGED <<fuse_vars, cam_vars>>
    /\ sen_pc = "while"
    /\ sen_last.Timestamp < end
    /\ \E jitter \in SensorTimeJitter, speed \in sensor_next_speed(sen_last.Speed) :
          /\ sen_new_row' = [Timestamp |-> sen_last.Timestamp + SensorTimeStep + jitter,
                             Speed |-> speed]
          /\ sensor_exceeds_end(sen_new_row'.Timestamp, end)
    /\ sen_pc' = "returned"
    /\ UNCHANGED <<start, end, sen_row_index, sen_len, sen_last>>

\* lines 23, 47: the condition of the while loop is false.
sensor_return ==
    /\ UNCHANGED <<fuse_vars, cam_vars>>
    /\ sen_pc = "while"
    /\ sen_last.Timestamp >= end
    /\ sen_pc' = "returned"
    /\ UNCHANGED <<start, end, sen_row_index, sen_len, sen_last, sen_new_row>>

SenFresh ==
    /\ sen_row_index = 0
    /\ sen_len = 0
    /\ sen_last = NoRow
    /\ sen_new_row = NoRow

\* A SensorSimulation(from_s, to_s) after __init__ (lines 8-12).
SenStart ==
    /\ \E from_s \in FromSVals : \E to_s \in ToSVals(from_s) :
          /\ start = ConversionFactor * from_s
          /\ end = ConversionFactor * to_s
    /\ sen_pc = "generate_data"
    /\ SenFresh

\* No SensorSimulation runs.
SenIdle ==
    /\ start = 0
    /\ end = 0
    /\ sen_pc = "idle"
    /\ SenFresh

NextSensor ==
    \/ sensor_first
    \/ sensor_tick
    \/ sensor_break
    \/ sensor_return

(***************************************************************************)
(* The specifications: one per program, and one of the two generators.     *)
(***************************************************************************)
\* The Reprocessor before to_csv is called, over any pair of input files.
FuseStart ==
    /\ sensor_file \in SensorFiles
    /\ camera_file \in CameraFiles
    /\ pc = "reprocess_data"
    /\ FuseFresh

InitFuse ==
    /\ FuseStart
    /\ CamIdle
    /\ SenIdle

NextFuse ==
    \/ reprocess_data_load
    \/ for_next
    \/ for_end
    \/ while_advance
    \/ while_exit
    \/ average_speed
    \/ average_speed_key_error
    \/ to_csv_write
    \/ to_csv_skip

SpecFuse == InitFuse /\ [][NextFuse]_vars

InitCamera ==
    /\ CamStart
    /\ FuseIdle
    /\ SenIdle

SpecCamera == InitCamera /\ [][NextCamera]_vars

InitSensor ==
    /\ SenStart
    /\ FuseIdle
    /\ CamIdle

SpecSensor == InitSensor /\ [][NextSensor]_vars

\* generate_data is one synchronous call: a step that can be taken is taken.
SpecSensorLive == SpecSensor /\ WF_vars(NextSensor)

\* Either generator, as test.py runs each of them on its own.
InitGenerators ==
    \/ InitCamera
    \/ InitSensor

NextGenerators ==
    \/ NextCamera
    \/ NextSensor

SpecGenerators == InitGenerators /\ [][NextGenerators]_vars

(***************************************************************************)
(* Claims about the fusion (resim.py), checked under SpecFuse.             *)
(***************************************************************************)

\* The largest sensor index whose timestamp is at or before ts, 0 if none.
LastAtOrBefore(rows, ts) ==
    LET S == {j \in 0..(Len(rows) - 1) : rows[j + 1].Timestamp <= ts}
    IN  IF S = {} THEN 0 ELSE Max(S)

\* C1: with a non-empty, strictly increasing sensor series and a camera
\* series of non-decreasing timestamps, the sensor index used for every
\* fused camera row is the largest index whose timestamp is at or before
\* the row's timestamp, and index 0 when no sensor timestamp is.
C1_MatchedIndex ==
    ( /\ Len(sensor_data.rows) > 0
      /\ StrictlyIncreasing(sensor_data.rows)
      /\ NonDecreasing(camera_data.rows) )
    => \A k \in 1..Len(used) :
          used[k] = LastAtOrBefore(sensor_data.rows, camera_data.rows[k].Timestamp)

\* A finished run whose first camera row precedes every sensor row (index 0
\* by the clamp) and whose second row is matched to a later sensor row.
C1_Witness ==
    /\ pc = "returned"
    /\ NonDecreasing(camera_data.rows)
    /\ Len(sensor_data.rows) = 2
    /\ used = <<0, 1>>
    /\ camera_data.rows[1].Timestamp < sensor_data.rows[1].Timestamp

\* C2: when both inputs are loaded and non-empty and reprocess_data has
\* returned, the result has one row per camera row, in the same order; row k
\* is camera row k except for Speed, which is the mean of the camera speed
\* and the speed of the sensor row matched to it.
C2_FusedRows ==
    ( /\ result = "data"
      /\ Len(sensor_data.rows) > 0
      /\ Len(camera_data.rows) > 0 )
    => /\ data.columns = camera_data.columns
       /\ Len(data.rows) = Len(camera_data.rows)
       /\ Len(used) = Len(camera_data.rows)
       /\ \A k \in 1..Len(camera_data.rows) :
             LET c == camera_data.rows[k]
                 matched == IF NonDecreasing(camera_data.rows)
                            THEN LastAtOrBefore(sensor_data.rows, c.Timestamp)
                            ELSE used[k]
             IN  /\ matched = used[k]
                 /\ data.rows[k] =
                       [Timestamp |-> c.Timestamp, FrameID |-> c.FrameID,
                        Speed |-> (c.Speed + sensor_data.rows[matched + 1].Speed) \div 2,
                        YawRate |-> c.YawRate, Signal1 |-> c.Signal1,
                        Signal2 |-> c.Signal2]

\* Two camera rows fused, the first with a sensor row of another speed.
C2_Witness ==
    /\ result = "data"
    /\ Len(data.rows) = 2
    /\ camera_data.rows[1].Speed = 5900
    /\ data.rows[1].Speed = 5954
    /\ data.rows[2].Signal1 = 7
    /\ data.rows[2].FrameID = 101

\* C3: fusion of an empty sensor series with a non-empty camera series ends
\* in a distinct IncompatibleInputs failure; it returns no fused series and
\* writes nothing.
C3_IncompatibleInputs ==
    ( /\ loaded = "True"
      /\ Len(sensor_data.rows) = 0
      /\ Len(camera_data.rows) > 0
      /\ pc \in {"to_csv", "returned", "raised"} )
    => /\ raised = "IncompatibleInputs"
       /\ result # "data"
       /\ ~out_exists

\* C4: with an empty camera series the loop body never runs, nothing is
\* raised, and reprocess_data returns an empty frame with the camera
\* columns, whatever the sensor series holds.
C4_EmptyCamera ==
    ( /\ loaded = "True"
      /\ Len(camera_data.rows) = 0 )
    => /\ raised = "none"
       /\ pc \in {"for", "to_csv", "returned"}
       /\ pc \in {"to_csv", "returned"} =>
             /\ result = "data"
             /\ data = [columns |-> CameraColumns, rows |-> <<>>]

\* An empty camera series fused against a sensor series of two rows.
C4_Witness ==
    /\ pc = "returned"
    /\ loaded = "True"
    /\ Len(camera_data.rows) = 0
    /\ Len(sensor_data.rows) = 2
    /\ result = "data"

\* C5: when a file is missing or blank try_load_data returns False,
\* reprocess_data returns None, nothing is raised and no output file is
\* created; when to_csv has ended, the output file exists exactly when
\* loading succeeded and reprocess_data returned the fused data.
C5_LoadFailure ==
    /\ ( /\ pc # "reprocess_data"
         /\ \/ sensor_file.kind # "csv"
            \/ camera_file.kind # "csv" ) => loaded = "False"
    /\ loaded = "False" =>
          /\ result = "None"
          /\ raised = "none"
          /\ ~out_exists
          /\ pc \in {"to_csv", "returned"}
    /\ pc \in {"returned", "raised"} =>
          (out_exists <=> (loaded = "True" /\ result = "data"))

\* to_csv has returned after the camera file turned out blank.
C5_Witness ==
    /\ pc = "returned"
    /\ sensor_file.kind = "csv"
    /\ Len(sensor_file.rows) > 0
    /\ camera_file.kind = "blank"
    /\ loaded = "False"
    /\ ~out_exists

\* C10: every fused speed lies between the smaller and the larger of the
\* camera speed and the speed of the sensor row used for it, inclusive.
C10_Between ==
    \A k \in 1..Len(used) :
        LET c == camera_data.rows[k].Speed
            s == sensor_data.rows[used[k] + 1].Speed
        IN  /\ Min({c, s}) <= data.rows[k].Speed
            /\ data.rows[k].Speed <= Max({c, s})

\* A fused row whose camera speed is above the sensor speed, and a second
\* one where the two speeds are equal.
C10_Witness ==
    /\ Len(used) = 2
    /\ camera_data.rows[1].Speed = 6008
    /\ sensor_data.rows[used[1] + 1].Speed = 5900
    /\ data.rows[1].Speed = 5954
    /\ camera_data.rows[2].Speed = sensor_data.rows[used[2] + 1].Speed

(***************************************************************************)
(* Claims about the camera generator (f_cam.py), checked under SpecCamera. *)
(***************************************************************************)

\* C6: the generated series has exactly frame_count samples, and sample k
\* carries frame id start_frame_id + k.
C6_FrameCount ==
    /\ cam_pc = "returned" => cam_len = frames
    /\ cam_len >= 1 => cam_last.FrameID = from_id + (cam_len - 1)

\* C7 as claimed: Signal1 is 0 up to frame start_frame_id + 100 and a value
\* of 1..15 after it, for every start_frame_id.
C7_Signal1RelativeToStart ==
    cam_len >= 1 =>
        /\ cam_last.FrameID <= from_id + 100 => cam_last.Signal1 = 0
        /\ cam_last.FrameID > from_id + 100 => cam_last.Signal1 \in 1..15

\* C7 as amended: Signal1 is 0 for every sample up to frame id 200; when
\* start_frame_id is at most 200 every sample after frame id 200 carries a
\* value of 1..15; when start_frame_id is above 200 Signal1 stays 0; and
\* Signal1 differs from that of the sample before only at frame id 201, so
\* it is one constant from there on.
C7_Signal1AtFrame201 ==
    /\ [](cam_len >= 1 =>
            /\ cam_last.FrameID <= 200 => cam_last.Signal1 = 0
            /\ (cam_last.FrameID > 200 /\ from_id <= 200) => cam_last.Signal1 \in 1..15
            /\ from_id > 200 => cam_last.Signal1 = 0)
    /\ [][(cam_len >= 1 /\ cam_last'.Signal1 # cam_last.Signal1)
             => cam_last'.FrameID = 201]_vars

\* A sample well after frame id 201 that still carries the value drawn
\* there.
C7_Witness ==
    /\ from_id = 100
    /\ cam_last.FrameID = 300
    /\ cam_last.Signal1 = 15
    /\ cam_last.Signal2 = 9000

(***************************************************************************)
(* Claims about the sensor generator (sensor.py), checked under SpecSensor.*)
(***************************************************************************)

\* C8 as claimed: every sample's timestamp, the first included, is at or
\* below end, for any start and end.
C8_BoundedForAnyWindow ==
    sen_len >= 1 => sen_last.Timestamp <= end

\* C8 as amended: the series starts with timestamp start, its timestamps
\* are strictly increasing, and when start <= end every sample's timestamp
\* is at or below end (when start > end the series is the one sample at
\* start, above end).
C8_Timestamps ==
    /\ [](sen_len = 1 => sen_last.Timestamp = start)
    /\ []((sen_len >= 1 /\ start <= end) => sen_last.Timestamp <= end)
    /\ []((sen_len >= 1 /\ start > end) => (sen_len = 1 /\ sen_last.Timestamp = start))
    /\ [][(sen_len >= 1 /\ sen_len' > sen_len)
             => sen_last'.Timestamp > sen_last.Timestamp]_vars

\* A finished series of many samples whose last timestamp is end itself.
C8_Witness ==
    /\ sen_pc = "returned"
    /\ start < end
    /\ sen_len > 200
    /\ sen_last.Timestamp = end

(***************************************************************************)
(* Claims about both generators, checked under SpecGenerators.             *)
(***************************************************************************)

\* C9: the speed of a sensor sample never exceeds 120.10 and that of a
\* camera sample never 120.05; as long as 60 plus the increments so far is
\* at most 120 the speed is exactly that sum (0.56 a sample for the sensor,
\* 0.08 a sample for the camera).
C9_SpeedCap ==
    /\ sen_len >= 1 =>
          /\ sen_last.Speed <= 12010
          /\ 6000 + 56 * sen_row_index <= 12000 =>
                sen_last.Speed = 6000 + 56 * sen_row_index
    /\ cam_len >= 1 =>
          /\ cam_last.Speed <= 12005
          /\ 6000 + 8 * (cam_len - 1) <= 12000 =>
                cam_last.Speed = 6000 + 8 * (cam_len - 1)

\* A camera sample past the cap that drew the largest speed.
C9_Witness ==
    /\ cam_len > 751
    /\ cam_last.Speed = 12005

(***************************************************************************)
(* Claims about the sweep of the fusion (resim.py), under SpecFuse.        *)
(***************************************************************************)

\* The number of camera rows the for loop has yielded so far.
Visited == IF pc \in {"while", "average", "raised"} THEN index + 1 ELSE index

\* Grows with every step of the sweep: three per finished camera row, one
\* per cursor advance, and the position inside the loop body.
SweepMeasure ==
    3 * index + sensor_index
        + (CASE pc = "while" -> 1 [] pc = "average" -> 2 [] OTHER -> 0)

\* The steps of the sweep, lines 41-47.
SweepStep ==
    \/ for_next
    \/ while_advance
    \/ while_exit
    \/ average_speed

\* The cursor never decreases, stays inside the sensor series when there is
\* one, and has advanced at most sensor_len - 1 times (it starts at 0 and
\* an advance adds 1, so the cursor is the number of advances); every step
\* of the sweep raises a measure that the lengths of the inputs bound.
SweepCursor ==
    /\ [](Len(sensor_data.rows) > 0 =>
             /\ sensor_index \in 0..(Len(sensor_data.rows) - 1)
             /\ sensor_index <= Len(sensor_data.rows) - 1)
    /\ [](SweepMeasure <= 3 * Len(camera_data.rows) + Len(sensor_data.rows) + 2)
    /\ [][sensor_index' >= sensor_index]_vars
    /\ [][SweepStep => SweepMeasure' > SweepMeasure]_vars

\* C11: the sweep ends for every pair of inputs with every camera row
\* visited exactly once; the cursor never decreases, stays inside a
\* non-empty sensor series and advances at most sensor_len - 1 times.
C11_Sweep ==
    /\ []((loaded = "True" /\ pc \in {"to_csv", "returned", "raised"}) =>
             Visited = Len(camera_data.rows))
    /\ [](loaded = "True" => Visited <= Len(camera_data.rows))
    /\ SweepCursor

\* C11 without the inputs that end in the KeyError of line 47 (an empty
\* sensor series with a non-empty camera series): what remains of the claim.
C11_SweepWhenFused ==
    /\ []((loaded = "True" /\ pc \in {"to_csv", "returned", "raised"}
              /\ ~(Len(sensor_data.rows) = 0 /\ Len(camera_data.rows) > 0)) =>
             (pc # "raised" /\ Visited = Len(camera_data.rows)))
    /\ [](loaded = "True" => Visited <= Len(camera_data.rows))
    /\ SweepCursor

(***************************************************************************)
(* Claims about the end of the sensor series (sensor.py), checked under    *)
(* SpecSensorLive.                                                         *)
(***************************************************************************)

\* A turn of the while loop starts: the condition of line 23 holds.
SensorTurn == sen_pc = "while" /\ sen_last.Timestamp < end

\* C12: in every turn of the loop a candidate above end is thrown away (the
\* series is left as it was) and the loop ends, and a candidate at or below
\* end is appended; the loop terminates; and when it has ended with
\* start <= end the last timestamp t has t <= end and t + 210000 > end.
C12_Cutoff ==
    /\ [][(SensorTurn /\ sen_new_row'.Timestamp > end) =>
             /\ sen_pc' = "returned"
             /\ sen_len' = sen_len
             /\ sen_last' = sen_last]_vars
    /\ [][(SensorTurn /\ sen_new_row' # sen_new_row /\ sen_new_row'.Timestamp <= end) =>
             /\ sen_pc' = "while"
             /\ sen_len' = sen_len + 1
             /\ sen_last' = sen_new_row']_vars
    /\ [][SensorTurn => sen_new_row' # sen_new_row]_vars
    /\ [](sen_len >= 1 /\ sen_pc = "returned" /\ start <= end =>
             /\ sen_last.Timestamp <= end
             /\ sen_last.Timestamp + 210000 > end)
    /\ <>(sen_pc = "returned")

\* A run that ended by throwing away a candidate although the last sample
\* is more than the smallest increment below end.
C12_Witness ==
    /\ sen_pc = "returned"
    /\ sen_len > 200
    /\ sen_new_row.Timestamp > end
    /\ sen_last.Timestamp + 190000 <= end
    /\ sen_last.Timestamp + 210000 > end

(***************************************************************************)
(* Claims about camera series in any order (resim.py), under SpecFuse.     *)
(***************************************************************************)

\* The largest timestamp among camera rows 1..k.
MaxTimestampUpTo(rows, k) == Max({rows[j].Timestamp : j \in 1..k})

\* Camera row k comes after a row with a later timestamp.
AfterLaterStamped(rows, k) == \E j \in 1..(k - 1) : rows[j].Timestamp > rows[k].Timestamp

\* For any camera order nothing is raised over a non-empty sensor series
\* (the one exception the sweep can raise is the KeyError over an empty
\* one, whatever the order), and the sensor index used for camera row k is
\* the last one at or before the largest camera timestamp among rows 1..k,
\* 0 if none.
RunningMaxMatch ==
    /\ raised # "none" => (raised = "KeyError" /\ Len(sensor_data.rows) = 0)
    /\ \A k \in 1..Len(used) :
          used[k] = LastAtOrBefore(sensor_data.rows,
                                   MaxTimestampUpTo(camera_data.rows, k))

\* C13 as claimed: the running-maximum match, and every camera row that
\* comes after a later-stamped one is fused with a sensor row newer than
\* its own timestamp.
C13_AlwaysNewerSensorRow ==
    /\ RunningMaxMatch
    /\ \A k \in 1..Len(used) :
          AfterLaterStamped(camera_data.rows, k) =>
             sensor_data.rows[used[k] + 1].Timestamp > camera_data.rows[k].Timestamp

\* C13 as amended: the running-maximum match, and a camera row that comes
\* after a later-stamped one is fused with a sensor row newer than its own
\* timestamp when some sensor row lies after its timestamp and at or before
\* that largest earlier camera timestamp; otherwise, unless the cursor is
\* still at row 0, the sensor row used is not newer.
C13_UnsortedCamera ==
    /\ RunningMaxMatch
    /\ \A k \in 1..Len(used) :
          LET own == camera_data.rows[k].Timestamp
              top == MaxTimestampUpTo(camera_data.rows, k)
              between == \E j \in 1..Len(sensor_data.rows) :
                            /\ own < sensor_data.rows[j].Timestamp
                            /\ sensor_data.rows[j].Timestamp <= top
              newer == sensor_data.rows[used[k] + 1].Timestamp > own
          IN  /\ (AfterLaterStamped(camera_data.rows, k) /\ between) => newer
              /\ (~between /\ used[k] > 0) => ~newer

\* The second camera row is stamped before the first and is fused with a
\* sensor row newer than itself, which the first row moved the cursor to.
C13_Witness ==
    /\ pc = "returned"
    /\ raised = "none"
    /\ Len(camera_data.rows) = 2
    /\ camera_data.rows[1].Timestamp > camera_data.rows[2].Timestamp
    /\ used = <<1, 1>>
    /\ sensor_data.rows[1].Timestamp <= camera_data.rows[2].Timestamp
    /\ sensor_data.rows[2].Timestamp > camera_data.rows[2].Timestamp

====
